---- MODULE Spec2Model ----
(***************************************************************************)
(* VelocityMart operations dashboard (src/streamlit_app.py).               *)
(*                                                                         *)
(* The script is one straight-line run over four loaded tables.  Each      *)
(* section of the script is one action; pc is the section the run is at.   *)
(*                                                                         *)
(* Numbers.  weight_kg is an integer number of 5 g units (0.005 kg), so    *)
(* 25 kg = 5000 and 0.01 kg = 2.  Ratios and percentages are exact         *)
(* fractions [n, d]; a fraction with d = 0 and n > 0 is +inf, and 0/0 is   *)
(* NaN, as pandas' float division produces them.  Where IEEE double        *)
(* rounding decides an outcome that exact arithmetic leaves on a boundary  *)
(* (a rounding tie, the ceiling of an exact quotient, an interpolation     *)
(* through inf) the action chooses among the outcomes.                     *)
(*                                                                         *)
(* Missing values.  The columns of the loaded tables hold no missing      *)
(* value; a missing slot, zone or aisle arises only from a left join       *)
(* without a match or from a slot code without a leading capital.          *)
(*                                                                         *)
(* The chart sections (lines 118-133 and 146-171) derive display-only      *)
(* frames and add the "hour" column; rows here carry their hour from the   *)
(* start, and the charts are not modelled.                                 *)
(***************************************************************************)
EXTENDS Integers, Sequences, FiniteSets

\* ------------------------------------------------------------- bounds

MaxSkuRows == 2
MaxSlotRows == 2
MaxPickerRows == 3
MaxPeakOrders == 5
MaxActive == 26
MaxViolations == 501
MaxSuspicious == 4
MaxVisits == 7
MaxOrderedSkus == 52
MaxDriftRows == 3

\* ------------------------------------------------- program constants

\* upper_domain_limit = 25 (kg), in 5 g units
UpperDomainLimit == 5000
\* lower_domain_limit = 0.01 (kg), in 5 g units
LowerDomainLimit == 2
\* .head(50)
TopN == 50
\* min(25, ...), in hundredths of a point
TempCap == 2500
\* len(temp_violations) * 0.05, in hundredths of a point
TempStep == 5
\* min(15, ...)
ShortcutCap == 15
\* len(shortcut_pickers) * 5
ShortcutStep == 5
\* min(20, pct_b)
AisleBCap == 20

\* ------------------------------------------------------------ values

NoSlot == <<"", 0>>
NoZone == "NaN"
NoAisle == "NaN"

UpperCase ==
  {"A", "B", "C", "D", "E", "F", "G", "H", "I", "J", "K", "L", "M",
   "N", "O", "P", "Q", "R", "S", "T", "U", "V", "W", "X", "Y", "Z"}

\* .str.extract(r"^([A-Z])"): the leading upper-case letter, else missing
AisleOf(slot) ==
  IF slot[1] \in UpperCase THEN slot[1] ELSE NoAisle

SeqUpTo(S, n) == UNION {[1..k -> S] : k \in 0..n}

Range(s) == {s[i] : i \in DOMAIN s}

Min(a, b) == IF a <= b THEN a ELSE b

Max(a, b) == IF a >= b THEN a ELSE b

RECURSIVE SumOver(_, _)
\* the sum of f[i] over the finite set of indices I
SumOver(f, I) ==
  IF I = {} THEN 0
  ELSE LET i == CHOOSE x \in I : TRUE
       IN f[i] + SumOver(f, I \ {i})

RECURSIVE Concat(_)
\* the concatenation of a sequence of sequences
Concat(ss) ==
  IF ss = <<>> THEN <<>> ELSE Head(ss) \o Concat(Tail(ss))

\* the elements of a finite set of integers in ascending order
Ascending(S) ==
  [k \in 1..Cardinality(S) |->
     CHOOSE x \in S : Cardinality({y \in S : y < x}) = k - 1]

\* ------------------------------------------------- fractions (floats)

Frac(n, d) == [n |-> n, d |-> d]

NaN == Frac(0, 0)

IsNaN(x) == x.n = 0 /\ x.d = 0

\* x > y on floats: false when either side is NaN, inf > inf is false
FracGt(x, y) == x.n * y.d > y.n * x.d

\* x >= y on floats: false when either side is NaN
FracGe(x, y) ==
  /\ ~IsNaN(x)
  /\ ~IsNaN(y)
  /\ x.n * y.d >= y.n * x.d

IsFinite(x) == x.d > 0

\* ---------------------------------------------- quantile parameters

\* .quantile(0.995) and .quantile(0.005) are QHigh/QDen and QLow/QDen
QDen == 200
QHigh == 199
QLow == 1
\* .quantile(0.95) is P95Num/P95Den
P95Num == 19
P95Den == 20

\* the k-th smallest (k from 1) of a non-empty sequence of integers
OrderStat(vals, k) ==
  CHOOSE v \in Range(vals) :
    /\ Cardinality({i \in DOMAIN vals : vals[i] < v}) < k
    /\ k <= Cardinality({i \in DOMAIN vals : vals[i] <= v})

\* qd times the qn/qd quantile of a non-empty sequence of integers, by
\* linear interpolation between the two neighbouring order statistics
QuantileScaled(vals, qn, qd) ==
  LET m == Len(vals)
      pos == qn * (m - 1)
      lo == pos \div qd
      g == pos % qd
      hi == Min(lo + 1, m - 1)
  IN (qd - g) * OrderStat(vals, lo + 1) + g * OrderStat(vals, hi + 1)

\* the k-th smallest (k from 1) of a non-empty sequence of fractions
FracOrderStat(r, k) ==
  r[CHOOSE i \in DOMAIN r :
      /\ Cardinality({j \in DOMAIN r : FracGt(r[i], r[j])}) < k
      /\ k <= Cardinality({j \in DOMAIN r : ~FracGt(r[j], r[i])})]

\* the values .quantile(0.95) can return for a sequence of fractions: NaN
\* for an empty one; the interpolation of the two neighbours when both are
\* finite; inf or NaN (inf - inf, inf * 0) when a neighbour is inf
Quantile95(r) ==
  IF r = <<>> THEN {NaN}
  ELSE LET m == Len(r)
           pos == P95Num * (m - 1)
           lo == pos \div P95Den
           g == pos % P95Den
           hi == Min(lo + 1, m - 1)
           a == FracOrderStat(r, lo + 1)
           b == FracOrderStat(r, hi + 1)
       IN IF IsFinite(a) /\ IsFinite(b)
          THEN {Frac((P95Den - g) * a.n * b.d + g * b.n * a.d,
                     P95Den * a.d * b.d)}
          ELSE {Frac(1, 0), NaN}

\* ----------------------------------------------------- aisle traffic

\* orders.merge(sku_master[["sku_id", "current_slot"]], on="sku_id",
\* how="left"), with the aisle column: one row per matching SKU row, in
\* the order of the left table, and one row with a missing slot when no
\* SKU row matches
OrdersWithSlot(ord, sku) ==
  Concat([i \in DOMAIN ord |->
    LET m == {j \in DOMAIN sku : sku[j].sku_id = ord[i].sku_id}
        row(slot) == [sku_id |-> ord[i].sku_id, hour |-> ord[i].hour,
                      current_slot |-> slot, aisle |-> AisleOf(slot)]
    IN IF m = {} THEN <<row(NoSlot)>>
       ELSE [k \in 1..Cardinality(m) |->
               row(sku[Ascending(m)[k]].current_slot)]])

\* .groupby("aisle").size(): the visit count of every aisle that has rows;
\* rows with a missing aisle are dropped
AisleTrafficOf(ows) ==
  LET present == {ows[i].aisle : i \in DOMAIN ows} \ {NoAisle}
  IN [a \in present |->
        Cardinality({i \in DOMAIN ows : ows[i].aisle = a})]

TotalTraffic(at) == SumOver(at, DOMAIN at)

\* pct_b = (b_traffic / total_traffic) * 100, or 0.0 without an aisle B
PctB(at) ==
  IF "B" \in DOMAIN at
  THEN Frac(100 * at["B"], TotalTraffic(at))
  ELSE Frac(0, 1)

\* ------------------------------------------------------ decimal drift

\* mutant: the two comparisons the wrong way round
DecimalDriftInside(sku, upper, lower) ==
  IF sku = <<>> THEN {}
  ELSE LET w == [i \in DOMAIN sku |-> sku[i].weight_kg]
           p99 == QuantileScaled(w, QHigh, QDen)
           p001 == QuantileScaled(w, QLow, QDen)
       IN {i \in DOMAIN sku :
             \/ QDen * w[i] < Min(QDen * upper, p99)
             \/ QDen * w[i] > Max(QDen * lower, p001)}

\* the index labels of the SKU rows outside the adaptive band
\* (min(upper, p99), max(lower, p001)); on an empty table both quantiles
\* are NaN and no row is selected
DecimalDriftOf(sku, upper, lower) ==
  IF sku = <<>> THEN {}
  ELSE LET w == [i \in DOMAIN sku |-> sku[i].weight_kg]
           p99 == QuantileScaled(w, QHigh, QDen)
           p001 == QuantileScaled(w, QLow, QDen)
       IN {i \in DOMAIN sku :
             \/ QDen * w[i] > Min(QDen * upper, p99)
             \/ QDen * w[i] < Max(QDen * lower, p001)}

\* --------------------------------------------------- shortcut paradox

\* .groupby("picker_id").agg(sum of travel_distance_m, count of order_id),
\* one row per picker in ascending picker_id, with orders_per_meter
PickerStats(pm) ==
  LET ids == Ascending({pm[i].picker_id : i \in DOMAIN pm})
  IN [k \in DOMAIN ids |->
        LET rows == {i \in DOMAIN pm : pm[i].picker_id = ids[k]}
            dist == SumOver([i \in rows |-> pm[i].travel_distance_m], rows)
        IN [picker_id |-> ids[k],
            total_distance |-> dist,
            total_orders |-> Cardinality(rows),
            orders_per_meter |-> Frac(Cardinality(rows), dist)]]

\* mutant: >= instead of >
ShortcutFilterInclusive(stats, thr) ==
  SelectSeq(stats, LAMBDA r : FracGe(r.orders_per_meter, thr))

\* picker_stats[picker_stats["orders_per_meter"] > threshold]
ShortcutFilter(stats, thr) ==
  SelectSeq(stats, LAMBDA r : FracGt(r.orders_per_meter, thr))

\* ---------------------------------------------------- ghost inventory

ValidBins(wh) == {wh[j].slot_id : j \in DOMAIN wh}

\* mutant: the difference taken the other way round
GhostBinsReversed(sku, wh) ==
  ValidBins(wh) \ {sku[i].current_slot : i \in DOMAIN sku}

\* set(sku_master["current_slot"]) - valid_bins
GhostBins(sku, wh) ==
  {sku[i].current_slot : i \in DOMAIN sku} \ ValidBins(wh)

\* sku_master[sku_master["current_slot"].isin(ghost_bins)], by index label
GhostRows(sku, bins) ==
  {i \in DOMAIN sku : sku[i].current_slot \in bins}

\* ------------------------------------------------------ spoilage risk

\* mutant: an inner join, which drops the SKU rows that match no slot
TempJoinInner(sku, wh) ==
  Concat([i \in DOMAIN sku |->
    LET m == {j \in DOMAIN wh : wh[j].slot_id = sku[i].current_slot}
    IN [k \in 1..Cardinality(m) |->
          [sku_row |-> i, sku_id |-> sku[i].sku_id,
           weight_kg |-> sku[i].weight_kg,
           current_slot |-> sku[i].current_slot,
           temp_req |-> sku[i].temp_req,
           temp_zone |-> wh[Ascending(m)[k]].temp_zone]]])

\* sku_master.merge(warehouse_fixed, on="current_slot", how="left"): one
\* row per matching slot row and one row with a missing temp_zone when no
\* slot matches; sku_row is the index label of the SKU row it comes from
TempJoin(sku, wh) ==
  Concat([i \in DOMAIN sku |->
    LET m == {j \in DOMAIN wh : wh[j].slot_id = sku[i].current_slot}
        row(zone) == [sku_row |-> i, sku_id |-> sku[i].sku_id,
                      weight_kg |-> sku[i].weight_kg,
                      current_slot |-> sku[i].current_slot,
                      temp_req |-> sku[i].temp_req, temp_zone |-> zone]
    IN IF m = {} THEN <<row(NoZone)>>
       ELSE [k \in 1..Cardinality(m) |-> row(wh[Ascending(m)[k]].temp_zone)]])

\* mutant: a missing temp_zone is skipped instead of counted
ZoneDiffersKnown(req, zone) == zone # NoZone /\ req # zone

\* temp_req != temp_zone: a missing temp_zone differs from everything
ZoneDiffers(req, zone) == zone = NoZone \/ req # zone

\* temp_violations[temp_req != temp_zone]
TempViolations(sku, wh) ==
  SelectSeq(TempJoin(sku, wh), LAMBDA r : ZoneDiffers(r.temp_req, r.temp_zone))

WeightSum(rows) ==
  SumOver([i \in DOMAIN rows |-> rows[i].weight_kg], DOMAIN rows)

\* -------------------------------------------------------- chaos score

\* mutant: 0.5 per violation instead of 0.05
TempPenaltyTenfold(n) == Min(TempCap, n * 10 * TempStep)

\* temp_penalty = min(25, len(temp_violations) * 0.05), in hundredths
TempPenalty(n) == Min(TempCap, n * TempStep)

\* shortcut_penalty = min(15, len(shortcut_pickers) * 5)
ShortcutPenalty(k) == Min(ShortcutCap, k * ShortcutStep)

\* mutant: the cap forgotten
AisleBPenaltyUncapped(p) == p

\* aisle_b_penalty = min(20, pct_b)
AisleBPenalty(p) ==
  IF AisleBCap * p.d < p.n THEN Frac(AisleBCap, 1) ELSE p

\* 100 - temp_penalty - shortcut_penalty - aisle_b_penalty, exactly
ScoreExact(tp, sp, ap) ==
  Frac(10000 * ap.d - tp * ap.d - 100 * sp * ap.d - 100 * ap.n, 100 * ap.d)

\* round(x, 1) in tenths: the nearest tenth; on an exact tie the double
\* nearest to x lies on either side of it, and either neighbour results
RoundTenths(x) ==
  LET q == (10 * x.n) \div x.d
      r == (10 * x.n) % x.d
  IN IF 2 * r < x.d THEN {q}
     ELSE IF 2 * r > x.d THEN {q + 1}
     ELSE {q, q + 1}

\* --------------------------------------------------- phase-1 roadmap

\* orders.groupby("sku_id").size().reset_index(name="order_count")
SkuVelocity(ord) ==
  LET ids == Ascending({ord[i].sku_id : i \in DOMAIN ord})
  IN [k \in DOMAIN ids |->
        [sku_id |-> ids[k],
         order_count |->
           Cardinality({i \in DOMAIN ord : ord[i].sku_id = ids[k]})]]

\* .sort_values("order_count", ascending=False); the default sort is not
\* stable, and rows of equal count come out in their input order or in
\* the reverse of it (tiesReversed)
SortByCountDesc(v, tiesReversed) ==
  LET before(i, j) ==
        \/ v[i].order_count > v[j].order_count
        \/ /\ v[i].order_count = v[j].order_count
           /\ IF tiesReversed THEN i > j ELSE i < j
  IN [k \in DOMAIN v |->
        v[CHOOSE j \in DOMAIN v :
            Cardinality({i \in DOMAIN v : before(i, j)}) = k - 1]]

\* mutant: one row too many
HeadRowsOneMore(v, n) == SubSeq(v, 1, Min(n + 1, Len(v)))

\* .head(n)
HeadRows(v, n) == SubSeq(v, 1, Min(n, Len(v)))

\* .merge(sku_master, on="sku_id", how="left"): one row per matching SKU
\* row (sku_row is its index label), and one row with sku_row = 0 and
\* missing attributes when no SKU row matches
RoadmapJoin(top, sku) ==
  Concat([i \in DOMAIN top |->
    LET m == {j \in DOMAIN sku : sku[j].sku_id = top[i].sku_id}
        row(j) == [sku_id |-> top[i].sku_id,
                   order_count |-> top[i].order_count, sku_row |-> j]
    IN IF m = {} THEN <<row(0)>>
       ELSE [k \in 1..Cardinality(m) |-> row(Ascending(m)[k])]])

Phase1Skus(ord, sku, tiesReversed) ==
  RoadmapJoin(HeadRows(SortByCountDesc(SkuVelocity(ord), tiesReversed), TopN),
              sku)

\* ----------------------------------------------- sensitivity analysis

\* orders_with_slot.groupby("hour").size()
HourCounts(ows) ==
  [h \in {ows[i].hour : i \in DOMAIN ows} |->
     Cardinality({i \in DOMAIN ows : ows[i].hour = h})]

\* .idxmax(): the first hour, in ascending order, with the largest count
PeakHour(hc) ==
  CHOOSE h \in DOMAIN hc :
    /\ \A g \in DOMAIN hc : hc[g] <= hc[h]
    /\ \A g \in DOMAIN hc : hc[g] = hc[h] => h <= g

\* mutant: the hour filter forgotten
ActivePickersAnyHour(pm, h) ==
  Cardinality({pm[i].picker_id : i \in DOMAIN pm})

\* picker_movement[hour == peak_hour]["picker_id"].nunique()
ActivePickers(pm, h) ==
  Cardinality({pm[i].picker_id : i \in {j \in DOMAIN pm : pm[j].hour = h}})

\* int(peak_orders_count * 1.2)
SpikeOrders(peak) == (12 * peak) \div 10

\* whether peak / active is a double exactly (a dyadic fraction)
ExactQuotient(peak, active) ==
  \E k \in 0..12 : (peak * 2^k) % active = 0

\* int(np.ceil(spike_orders / orders_per_picker)), orders_per_picker =
\* peak / active: the ceiling of spike * active / peak; when that quotient
\* is a whole number and peak / active was rounded, the double quotient
\* lies at or just beside it and the ceiling is it or one more
RequiredPickers(spike, peak, active) ==
  LET c == (spike * active + peak - 1) \div peak
  IN IF (spike * active) % peak = 0 /\ ~ExactQuotient(peak, active)
     THEN {c, c + 1}
     ELSE {c}

AdditionalPickers(required, active) == Max(0, required - active)

\* mutant: the first boundary taken strictly
ResilienceStrict(additional) ==
  IF additional < 2 THEN "HIGH"
  ELSE IF additional <= 4 THEN "MEDIUM"
  ELSE "LOW"

Resilience(additional) ==
  IF additional <= 2 THEN "HIGH"
  ELSE IF additional <= 4 THEN "MEDIUM"
  ELSE "LOW"

\* -------------------------------------------------------------- state

VARIABLES
  pc,                      \* the section the run is at
  error,                   \* the exception that ended the run, or "none"
  sku_master, warehouse, orders, picker_movement,   \* the loaded tables
  upper_domain_limit, lower_domain_limit,
  orders_with_slot, aisle_traffic, pct_b,
  decimal_drift,
  picker_stats, threshold, shortcut_pickers, suspicious_picker_count,
  ghost_bins, ghost_rows, ghost_status,
  temp_violations, violation_count, weight_at_risk,
  chaos,
  phase1_skus,
  sensitivity, resilience,
  slotting_shown, export_offered

inputs ==
  <<sku_master, warehouse, orders, picker_movement,
    upper_domain_limit, lower_domain_limit>>

trafficVars == <<orders_with_slot, aisle_traffic, pct_b>>

shortcutVars ==
  <<picker_stats, threshold, shortcut_pickers, suspicious_picker_count>>

ghostVars == <<ghost_bins, ghost_rows, ghost_status>>

spoilageVars == <<temp_violations, violation_count, weight_at_risk>>

sensitivityVars == <<sensitivity, resilience>>

finalVars == <<slotting_shown, export_offered>>

vars ==
  <<pc, error, inputs, trafficVars, decimal_drift, shortcutVars, ghostVars,
    spoilageVars, chaos, phase1_skus, sensitivityVars, finalVars>>

\* ------------------------------------------------------------- inputs

Zones == {"ambient", "frozen"}

A1 == <<"A", 1>>
A2 == <<"A", 2>>
B1 == <<"B", 1>>
C9 == <<"C", 9>>

SkuRow(s, w, c, t) ==
  [sku_id |-> s, weight_kg |-> w, current_slot |-> c, temp_req |-> t]

SlotRow(c, t) == [slot_id |-> c, temp_zone |-> t]

OrderRow(s, h) == [sku_id |-> s, hour |-> h]

PickerRow(p, s, d, h) ==
  [picker_id |-> p, sku_id |-> s, travel_distance_m |-> d, hour |-> h]

DefaultSku == <<SkuRow(1, 200, A1, "ambient"), SkuRow(2, 400, B1, "frozen")>>

DefaultWarehouse == <<SlotRow(A1, "ambient"), SlotRow(B1, "frozen")>>

\* the order for SKU 3 matches no SKU row of the tables drawn here
DefaultOrders ==
  <<OrderRow(1, 19), OrderRow(2, 19), OrderRow(2, 18), OrderRow(3, 19)>>

DefaultPickers == <<PickerRow(1, 1, 10, 19), PickerRow(2, 2, 20, 19)>>

\* the (current_slot, temp_req) of a SKU row
SkuKinds == {A1, B1, C9} \X Zones

\* SKU rows with the given slots and requirements; row i is SKU i and
\* weighs i kg
SkuTable(f) ==
  [i \in DOMAIN f |-> SkuRow(i, 200 * i, f[i][1], f[i][2])]

SlotKinds == {SlotRow(c, t) : c \in {A1, B1}, t \in Zones}

PickerKinds == {PickerRow(p, 1, d, 19) : p \in 1..3, d \in {0, 10, 20}}

\* n18 orders at 18:00 followed by n19 orders at 19:00
OrdersAt(n18, n19) ==
  [i \in 1..(n18 + n19) |-> OrderRow(1, IF i <= n18 THEN 18 ELSE 19)]

\* m pickers with one record each at 19:00, then k at 18:00
PickersAt(m, k) ==
  [i \in 1..(m + k) |->
     PickerRow(i, 1, 10 + i, IF i <= m THEN 19 ELSE 18)]

BlankTraffic ==
  /\ orders_with_slot = <<>>
  /\ aisle_traffic = <<>>
  /\ pct_b = Frac(0, 1)

BlankShortcut ==
  /\ picker_stats = <<>>
  /\ threshold = NaN
  /\ shortcut_pickers = <<>>

BlankGhost ==
  /\ ghost_bins = {}
  /\ ghost_rows = {}
  /\ ghost_status = "none"

BlankSpoilage ==
  /\ temp_violations = <<>>
  /\ weight_at_risk = 0

BlankSummary ==
  /\ chaos = <<>>
  /\ phase1_skus = <<>>
  /\ sensitivity = <<>>
  /\ resilience = "none"
  /\ slotting_shown = FALSE
  /\ export_offered = FALSE

\* the state before the first section has run
Fresh ==
  /\ pc = "traffic"
  /\ error = "none"
  /\ BlankTraffic
  /\ decimal_drift = {}
  /\ BlankShortcut
  /\ suspicious_picker_count = 0
  /\ BlankGhost
  /\ BlankSpoilage
  /\ violation_count = 0
  /\ BlankSummary

ProgramLimits ==
  /\ upper_domain_limit = UpperDomainLimit
  /\ lower_domain_limit = LowerDomainLimit

\* SKU master and warehouse tables of every shape, fixed orders and pickers
InitIntegrity ==
  /\ \E f \in SeqUpTo(SkuKinds, MaxSkuRows) : sku_master = SkuTable(f)
  /\ warehouse \in SeqUpTo(SlotKinds, MaxSlotRows)
  /\ orders = DefaultOrders
  /\ picker_movement = DefaultPickers

\* picker movement logs of every shape, zero distances included
InitPickers ==
  /\ sku_master = DefaultSku
  /\ warehouse = DefaultWarehouse
  /\ orders = DefaultOrders
  /\ picker_movement \in SeqUpTo(PickerKinds, MaxPickerRows)

\* order volumes per hour against numbers of pickers per hour
InitPeak ==
  /\ sku_master = DefaultSku
  /\ warehouse = DefaultWarehouse
  /\ \E n18 \in 0..MaxPeakOrders, n19 \in 0..MaxPeakOrders :
       orders = OrdersAt(n18, n19)
  /\ \E m \in 0..MaxActive, k \in 0..1 : picker_movement = PickersAt(m, k)

\* warehouse slots {A1, A2, B1} and SKU slots {A1, C9}
InitGhostExample ==
  /\ sku_master = <<SkuRow(1, 200, A1, "ambient"), SkuRow(2, 400, C9, "frozen")>>
  /\ warehouse = <<SlotRow(A1, "ambient"), SlotRow(A2, "ambient"),
                   SlotRow(B1, "frozen")>>
  /\ orders = DefaultOrders
  /\ picker_movement = DefaultPickers

Init ==
  /\ Fresh
  /\ ProgramLimits
  /\ \/ InitIntegrity
     \/ InitPickers
     \/ InitPeak
     \/ InitGhostExample

\* ------------------------------------------------------------ actions

\* lines 36-55: the orders joined to their slots, the traffic per aisle and
\* the share of aisle B
AisleTraffic ==
  /\ pc = "traffic"
  /\ orders_with_slot' = OrdersWithSlot(orders, sku_master)
  /\ aisle_traffic' = AisleTrafficOf(orders_with_slot')
  /\ pct_b' = PctB(aisle_traffic')
  /\ pc' = "drift"
  /\ UNCHANGED <<error, inputs, decimal_drift, shortcutVars, ghostVars,
                 spoilageVars, chaos, phase1_skus, sensitivityVars, finalVars>>

\* lines 71-86
DecimalDrift ==
  /\ pc = "drift"
  /\ decimal_drift' =
       DecimalDriftOf(sku_master, upper_domain_limit, lower_domain_limit)
  /\ pc' = "shortcut"
  /\ UNCHANGED <<error, inputs, trafficVars, shortcutVars, ghostVars,
                 spoilageVars, chaos, phase1_skus, sensitivityVars, finalVars>>

\* lines 89-100
ShortcutParadox ==
  /\ pc = "shortcut"
  /\ picker_stats' = PickerStats(picker_movement)
  /\ threshold' \in
       Quantile95([k \in DOMAIN picker_stats' |->
                     picker_stats'[k].orders_per_meter])
  /\ shortcut_pickers' = ShortcutFilter(picker_stats', threshold')
  /\ suspicious_picker_count' = Len(shortcut_pickers')
  /\ pc' = "ghost"
  /\ UNCHANGED <<error, inputs, trafficVars, decimal_drift, ghostVars,
                 spoilageVars, chaos, phase1_skus, sensitivityVars, finalVars>>

\* lines 103-110
GhostInventory ==
  /\ pc = "ghost"
  /\ ghost_bins' = GhostBins(sku_master, warehouse)
  /\ IF ghost_bins' # {}
     THEN /\ ghost_status' = "error"
          /\ ghost_rows' = GhostRows(sku_master, ghost_bins')
     ELSE /\ ghost_status' = "success"
          /\ ghost_rows' = {}
  /\ pc' = "spoilage"
  /\ UNCHANGED <<error, inputs, trafficVars, decimal_drift, shortcutVars,
                 spoilageVars, chaos, phase1_skus, sensitivityVars, finalVars>>

\* lines 138-144
SpoilageRisk ==
  /\ pc = "spoilage"
  /\ temp_violations' = TempViolations(sku_master, warehouse)
  /\ violation_count' = Len(temp_violations')
  /\ weight_at_risk' = WeightSum(temp_violations')
  /\ pc' = "chaos"
  /\ UNCHANGED <<error, inputs, trafficVars, decimal_drift, shortcutVars,
                 ghostVars, chaos, phase1_skus, sensitivityVars, finalVars>>

\* lines 182-195; chaos_score is in tenths of a point, temp_penalty in
\* hundredths
ChaosScore ==
  /\ pc = "chaos"
  /\ LET tp == TempPenalty(violation_count)
         sp == ShortcutPenalty(suspicious_picker_count)
         ap == AisleBPenalty(pct_b)
     IN \E score \in RoundTenths(ScoreExact(tp, sp, ap)) :
          chaos' = <<[temp_penalty |-> tp, shortcut_penalty |-> sp,
                      aisle_b_penalty |-> ap, chaos_score |-> score]>>
  /\ pc' = "roadmap"
  /\ UNCHANGED <<error, inputs, trafficVars, decimal_drift, shortcutVars,
                 ghostVars, spoilageVars, phase1_skus, sensitivityVars,
                 finalVars>>

\* lines 200-208
Phase1Roadmap ==
  /\ pc = "roadmap"
  /\ \E tiesReversed \in BOOLEAN :
       phase1_skus' = Phase1Skus(orders, sku_master, tiesReversed)
  /\ pc' = "sensitivity"
  /\ UNCHANGED <<error, inputs, trafficVars, decimal_drift, shortcutVars,
                 ghostVars, spoilageVars, chaos, sensitivityVars, finalVars>>

\* lines 213-232: idxmax of an empty series raises ValueError, and the
\* division by active_pickers = 0 raises ZeroDivisionError; either ends
\* the run
SensitivityAnalysis ==
  /\ pc = "sensitivity"
  /\ LET hc == HourCounts(orders_with_slot)
     IN IF DOMAIN hc = {}
        THEN /\ error' = "ValueError"
             /\ pc' = "error"
             /\ UNCHANGED sensitivityVars
        ELSE LET peak_hour == PeakHour(hc)
                 peak_orders_count == hc[peak_hour]
                 active_pickers == ActivePickers(picker_movement, peak_hour)
                 spike_orders == SpikeOrders(peak_orders_count)
             IN IF active_pickers = 0
                THEN /\ error' = "ZeroDivisionError"
                     /\ pc' = "error"
                     /\ sensitivity' =
                          <<[peak_hour |-> peak_hour,
                             peak_orders_count |-> peak_orders_count,
                             active_pickers |-> active_pickers]>>
                     /\ UNCHANGED resilience
                ELSE /\ \E required_pickers \in
                          RequiredPickers(spike_orders, peak_orders_count,
                                          active_pickers) :
                          sensitivity' =
                            <<[peak_hour |-> peak_hour,
                               peak_orders_count |-> peak_orders_count,
                               active_pickers |-> active_pickers,
                               spike_orders |-> spike_orders,
                               required_pickers |-> required_pickers,
                               additional_pickers |->
                                 AdditionalPickers(required_pickers,
                                                   active_pickers)]>>
                     /\ resilience' =
                          Resilience(sensitivity'[1].additional_pickers)
                     /\ error' = error
                     /\ pc' = "final"
  /\ UNCHANGED <<inputs, trafficVars, decimal_drift, shortcutVars, ghostVars,
                 spoilageVars, chaos, phase1_skus, finalVars>>

\* lines 238-246
FinalSlottingPlan ==
  /\ pc = "final"
  /\ slotting_shown' = TRUE
  /\ export_offered' = TRUE
  /\ pc' = "done"
  /\ UNCHANGED <<error, inputs, trafficVars, decimal_drift, shortcutVars,
                 ghostVars, spoilageVars, chaos, phase1_skus, sensitivityVars>>

Next ==
  \/ AisleTraffic
  \/ DecimalDrift
  \/ ShortcutParadox
  \/ GhostInventory
  \/ SpoilageRisk
  \/ ChaosScore
  \/ Phase1Roadmap
  \/ SensitivityAnalysis
  \/ FinalSlottingPlan

Spec == Init /\ [][Next]_vars

\* ----------------------------------------------------------- sections

ShortcutDone == pc \notin {"traffic", "drift", "shortcut"}

GhostDone == ShortcutDone /\ pc # "ghost"

SpoilageDone == GhostDone /\ pc # "spoilage"

SensitivityDone == pc \in {"final", "done", "error"}

\* ----------------------------------------------------- ghost inventory

SkuSlots == {sku_master[i].current_slot : i \in DOMAIN sku_master}

WarehouseSlots == {warehouse[j].slot_id : j \in DOMAIN warehouse}

\* the SKU rows whose slot is the slot_id of no warehouse row
Unslotted ==
  {i \in DOMAIN sku_master :
     \A j \in DOMAIN warehouse :
       warehouse[j].slot_id # sku_master[i].current_slot}

\* C3: once the ghost-inventory section has run, ghost_bins is the set of
\* SKU slots minus the set of warehouse slots, the rows reported are the
\* SKU rows whose slot is in that difference, and the section reports
\* success, with nothing flagged, exactly when every SKU slot is a
\* warehouse slot; slots {A1, A2, B1} and SKU slots {A1, C9} give {C9}.
C3_GhostInventoryExact ==
  GhostDone =>
    /\ ghost_bins = SkuSlots \ WarehouseSlots
    /\ ghost_rows = Unslotted
    /\ ghost_status = "success" <=> SkuSlots \subseteq WarehouseSlots
    /\ ghost_status = "error" <=> ghost_rows # {}
    /\ ghost_status = "success" => ghost_bins = {} /\ ghost_rows = {}
    /\ (WarehouseSlots = {A1, A2, B1} /\ SkuSlots = {A1, C9})
         => ghost_bins = {C9}

C3_Witness ==
  /\ GhostDone
  /\ WarehouseSlots = {A1, A2, B1}
  /\ SkuSlots = {A1, C9}
  /\ ghost_bins = {C9}
  /\ ghost_status = "error"

\* ------------------------------------------------ temperature violations

\* the rows of the left join that have a slot: (SKU row, warehouse row)
JoinPairs ==
  {p \in (DOMAIN sku_master) \X (DOMAIN warehouse) :
     warehouse[p[2]].slot_id = sku_master[p[1]].current_slot}

ViolatingPairs ==
  {p \in JoinPairs : sku_master[p[1]].temp_req # warehouse[p[2]].temp_zone}

PairWeight == [p \in ViolatingPairs |-> sku_master[p[1]].weight_kg]

UnslottedWeight == [i \in Unslotted |-> sku_master[i].weight_kg]

\* C6: the violations are the rows of the left join whose temp_req differs
\* from the slot's temp_zone together with one row for every SKU row that
\* matches no slot; the count and the weight at risk are the number and
\* the summed weight of those rows.
C6_TempViolationsExact ==
  SpoilageDone =>
    /\ violation_count =
         Cardinality(ViolatingPairs) + Cardinality(Unslotted)
    /\ weight_at_risk =
         SumOver(PairWeight, ViolatingPairs) + SumOver(UnslottedWeight, Unslotted)
    /\ Len(temp_violations) = violation_count
    /\ \A k \in DOMAIN temp_violations :
         LET r == temp_violations[k]
         IN \/ r.sku_row \in Unslotted /\ r.temp_zone = NoZone
            \/ \E p \in ViolatingPairs :
                 /\ p[1] = r.sku_row
                 /\ warehouse[p[2]].temp_zone = r.temp_zone
                 /\ r.temp_req # r.temp_zone
    /\ \A i \in Unslotted :
         Cardinality({k \in DOMAIN temp_violations :
                        temp_violations[k].sku_row = i}) = 1

C6_Witness ==
  /\ SpoilageDone
  /\ Unslotted # {}
  /\ ViolatingPairs # {}
  /\ JoinPairs # ViolatingPairs
  /\ violation_count = 2

\* C10: every SKU row reported as ghost inventory is one of the temperature
\* violations, so the violation count is at least the number of ghost rows
\* and temp_penalty is at least min(25, 0.05 per ghost row).
C10_GhostCountsAsViolation ==
  SpoilageDone =>
    /\ \A i \in ghost_rows :
         \E k \in DOMAIN temp_violations : temp_violations[k].sku_row = i
    /\ violation_count >= Cardinality(ghost_rows)
    /\ chaos # <<>> =>
         /\ chaos[1].temp_penalty >=
              Min(TempCap, TempStep * Cardinality(ghost_rows))
         /\ ghost_rows # {} => chaos[1].temp_penalty > 0

C10_Witness ==
  /\ chaos # <<>>
  /\ Cardinality(ghost_rows) = 2
  /\ violation_count = 2
  /\ chaos[1].temp_penalty = 2 * TempStep

\* --------------------------------------------------- shortcut pickers

PickerIds == {picker_movement[i].picker_id : i \in DOMAIN picker_movement}

RecordsOf(p) ==
  {i \in DOMAIN picker_movement : picker_movement[i].picker_id = p}

\* a picker's order count over its total travel distance, from the log
OrdersPerMeter(p) ==
  Frac(Cardinality(RecordsOf(p)),
       SumOver([i \in RecordsOf(p) |-> picker_movement[i].travel_distance_m],
               RecordsOf(p)))

Flagged(p) ==
  \E k \in DOMAIN shortcut_pickers : shortcut_pickers[k].picker_id = p

AtThreshold(p) ==
  /\ ~IsNaN(threshold)
  /\ ~FracGt(OrdersPerMeter(p), threshold)
  /\ ~FracGt(threshold, OrdersPerMeter(p))

\* C7: a picker is flagged exactly when its orders per meter is strictly
\* greater than the threshold, never when it equals it; and the threshold
\* is a 95th percentile: when it is a number, more than 95% of the other
\* pickers' positions lie at or below it, and at most the top 5% of the
\* pickers (rounded up) are flagged.
C7_FlaggedIffAboveP95 ==
  ShortcutDone =>
    /\ \A p \in PickerIds :
         /\ Flagged(p) <=> FracGt(OrdersPerMeter(p), threshold)
         /\ AtThreshold(p) => ~Flagged(p)
    /\ \A k \in DOMAIN shortcut_pickers :
         shortcut_pickers[k].picker_id \in PickerIds
    /\ suspicious_picker_count = Cardinality({p \in PickerIds : Flagged(p)})
    /\ P95Den * suspicious_picker_count
         <= (P95Den - P95Num) * (Cardinality(PickerIds) - 1) + P95Num
    /\ IsFinite(threshold) =>
         P95Den * Cardinality({p \in PickerIds :
                                 ~FracGt(OrdersPerMeter(p), threshold)})
           > P95Num * (Cardinality(PickerIds) - 1)

C7_Witness ==
  /\ ShortcutDone
  /\ suspicious_picker_count = 1
  /\ \E p \in PickerIds : AtThreshold(p) /\ ~Flagged(p)

\* ------------------------------------------------ sensitivity analysis

OrdersAtHour(h) ==
  Cardinality({i \in DOMAIN orders_with_slot : orders_with_slot[i].hour = h})

PickersAtHour(h) ==
  {picker_movement[i].picker_id :
     i \in {j \in DOMAIN picker_movement : picker_movement[j].hour = h}}

\* C8: peak_hour has the most orders; spike_orders is the peak count times
\* 1.2, truncated; required_pickers is the ceiling of spike_orders over
\* orders_per_picker (one more at most where the double quotient of a
\* whole-number result is rounded up); additional_pickers is
\* max(0, required - active), never negative; and the classification is
\* HIGH exactly for at most 2, MEDIUM exactly for 3 or 4, LOW otherwise.
C8_ResilienceClassification ==
  resilience # "none" =>
    LET s == sensitivity[1]
    IN /\ \A i \in DOMAIN orders_with_slot :
            OrdersAtHour(orders_with_slot[i].hour) <= s.peak_orders_count
       /\ s.peak_orders_count = OrdersAtHour(s.peak_hour)
       /\ s.active_pickers = Cardinality(PickersAtHour(s.peak_hour))
       /\ 5 * s.spike_orders <= 6 * s.peak_orders_count
       /\ 6 * s.peak_orders_count < 5 * (s.spike_orders + 1)
       /\ s.required_pickers * s.peak_orders_count
            >= s.spike_orders * s.active_pickers
       /\ (s.required_pickers - 1) * s.peak_orders_count
            <= s.spike_orders * s.active_pickers
       /\ s.additional_pickers >= 0
       /\ s.additional_pickers >= s.required_pickers - s.active_pickers
       /\ s.additional_pickers \in {0, s.required_pickers - s.active_pickers}
       /\ resilience = "HIGH" <=> s.additional_pickers <= 2
       /\ resilience = "MEDIUM" <=> s.additional_pickers \in {3, 4}
       /\ resilience = "LOW" <=> s.additional_pickers >= 5

C8_Witness ==
  /\ resilience = "LOW"
  /\ sensitivity[1].additional_pickers = 5
  /\ sensitivity[1].spike_orders > sensitivity[1].peak_orders_count

\* C9: with no picker record in the peak hour the run ends in the
\* ZeroDivisionError state, with no classification, no slotting-plan
\* display and no export; with at least one it reaches a classification.
C9_ZeroPickersEndsRun ==
  /\ error # "none" =>
       /\ pc = "error"
       /\ resilience = "none"
       /\ ~slotting_shown
       /\ ~export_offered
  /\ (SensitivityDone /\ sensitivity # <<>>) =>
       LET s == sensitivity[1]
       IN /\ s.peak_orders_count = OrdersAtHour(s.peak_hour)
          /\ \A i \in DOMAIN orders_with_slot :
               OrdersAtHour(orders_with_slot[i].hour) <= s.peak_orders_count
          /\ PickersAtHour(s.peak_hour) = {} <=> error = "ZeroDivisionError"
          /\ PickersAtHour(s.peak_hour) # {} =>
               /\ error = "none"
               /\ resilience \in {"HIGH", "MEDIUM", "LOW"}
               /\ s.active_pickers >= 1
  /\ error = "ZeroDivisionError" =>
       /\ sensitivity # <<>>
       /\ sensitivity[1].active_pickers = 0
  /\ pc = "done" => error = "none" /\ slotting_shown /\ export_offered

C9_Witness ==
  /\ error = "ZeroDivisionError"
  /\ pc = "error"
  /\ picker_movement # <<>>
  /\ sensitivity[1].peak_orders_count >= 1

\* -------------------------------------------------------- chaos score
\* The chaos-score section on its own: the violation count, the number of
\* suspicious pickers and the aisle traffic are drawn from their ranges,
\* and the section is applied to them.  The loaded tables are not read.

NoTables ==
  /\ sku_master = <<>>
  /\ warehouse = <<>>
  /\ orders = <<>>
  /\ picker_movement = <<>>

\* the aisle_traffic frame with a visits in aisle A and b in aisle B; an
\* aisle without visits has no row
TrafficTable(a, b) ==
  [x \in {y \in {"A", "B"} : (IF y = "A" THEN a ELSE b) > 0} |->
     IF x = "A" THEN a ELSE b]

InitChaos ==
  /\ pc = "chaos"
  /\ error = "none"
  /\ NoTables
  /\ ProgramLimits
  /\ orders_with_slot = <<>>
  /\ \E a \in 0..MaxVisits, b \in 0..MaxVisits :
       aisle_traffic = TrafficTable(a, b)
  /\ pct_b = PctB(aisle_traffic)
  /\ decimal_drift = {}
  /\ BlankShortcut
  /\ suspicious_picker_count \in 0..MaxSuspicious
  /\ BlankGhost
  /\ BlankSpoilage
  /\ violation_count \in 0..MaxViolations
  /\ BlankSummary

NextChaos == ChaosScore

SpecChaos == InitChaos /\ [][NextChaos]_vars

\* C1: for non-negative counts and an aisle-B share in [0, 100], the chaos
\* score lies in [40.0, 100.0] (in tenths: 400..1000).
C1_ChaosScoreRange ==
  /\ violation_count >= 0
  /\ suspicious_picker_count >= 0
  /\ 0 <= pct_b.n
  /\ pct_b.n <= 100 * pct_b.d
  /\ chaos # <<>> =>
       /\ chaos[1].chaos_score >= 400
       /\ chaos[1].chaos_score <= 1000

C1_Witness ==
  /\ chaos # <<>>
  /\ chaos[1].chaos_score = 400
  /\ violation_count > 500
  /\ suspicious_picker_count > 3
  /\ pct_b.n = 100 * pct_b.d

\* twice the distance, in units of 1 / (100 * pct_b.d) of a tenth, between
\* the score and the exact value of
\* 100 - temp_penalty - shortcut_penalty - aisle_b_penalty
ScoreError2 ==
  LET c == chaos[1]
      d == c.aisle_b_penalty.d
      exact == 10000 * d - c.temp_penalty * d - 100 * c.shortcut_penalty * d
                 - 100 * c.aisle_b_penalty.n
      got == 10 * d * c.chaos_score
  IN 2 * (IF got >= exact THEN got - exact ELSE exact - got)

\* C2: each penalty is the smaller of its own cap and its own term,
\* whatever the other two are, and the score is 100 minus the three,
\* rounded to one decimal; 100 violations, 2 suspicious pickers and 30% of
\* the traffic in aisle B give 5.0, 10.0, 20.0 and 65.0.
C2_ChaosScoreFormula ==
  chaos # <<>> =>
    LET c == chaos[1]
    IN /\ c.temp_penalty <= 2500
       /\ c.temp_penalty <= 5 * violation_count
       /\ c.temp_penalty = 2500 \/ c.temp_penalty = 5 * violation_count
       /\ c.shortcut_penalty <= 15
       /\ c.shortcut_penalty <= 5 * suspicious_picker_count
       /\ c.shortcut_penalty = 15 \/ c.shortcut_penalty = 5 * suspicious_picker_count
       /\ c.aisle_b_penalty.n <= 20 * c.aisle_b_penalty.d
       /\ c.aisle_b_penalty.n * pct_b.d <= pct_b.n * c.aisle_b_penalty.d
       /\ \/ c.aisle_b_penalty.n = 20 * c.aisle_b_penalty.d
          \/ c.aisle_b_penalty.n * pct_b.d = pct_b.n * c.aisle_b_penalty.d
       /\ ScoreError2 <= 10 * c.aisle_b_penalty.d
       /\ (/\ violation_count = 100
           /\ suspicious_picker_count = 2
           /\ pct_b.n = 30 * pct_b.d)
            => /\ c.temp_penalty = 500
               /\ c.shortcut_penalty = 10
               /\ c.aisle_b_penalty.n = 20 * c.aisle_b_penalty.d
               /\ c.chaos_score = 650

C2_Witness ==
  /\ chaos # <<>>
  /\ violation_count = 100
  /\ suspicious_picker_count = 2
  /\ pct_b.n = 30 * pct_b.d
  /\ chaos[1].temp_penalty = 500
  /\ chaos[1].chaos_score = 650

\* ---------------------------------------------------- phase-1 roadmap
\* The roadmap section on its own, on order tables with more SKUs than
\* the roadmap keeps and SKU masters with and without a repeated sku_id.

\* orders for SKUs 1..m, SKU i ordered 1 + ((i * p) % 3) times
RoadmapOrders(m, p) ==
  Concat([i \in 1..m |-> [k \in 1..(1 + ((i * p) % 3)) |-> OrderRow(i, 19)]])

\* one row for each of SKUs 1..k, then dup further rows for SKU 1
MasterWith(k, dup) ==
  [i \in 1..(k + dup) |->
     IF i <= k THEN SkuRow(i, 200, A1, "ambient")
     ELSE SkuRow(1, 400, B1, "frozen")]

InitRoadmap ==
  /\ pc = "roadmap"
  /\ error = "none"
  /\ ProgramLimits
  /\ warehouse = DefaultWarehouse
  /\ picker_movement = DefaultPickers
  /\ \E m \in 0..MaxOrderedSkus, p \in 0..2 : orders = RoadmapOrders(m, p)
  /\ \E k \in {0, 1, MaxOrderedSkus}, dup \in 0..1 :
       sku_master = MasterWith(k, dup)
  /\ BlankTraffic
  /\ decimal_drift = {}
  /\ BlankShortcut
  /\ suspicious_picker_count = 0
  /\ BlankGhost
  /\ BlankSpoilage
  /\ violation_count = 0
  /\ BlankSummary

NextRoadmap == Phase1Roadmap

SpecRoadmap == InitRoadmap /\ [][NextRoadmap]_vars

RoadmapDone == pc \in {"sensitivity", "final", "done", "error"}

OrderedSkus == {orders[i].sku_id : i \in DOMAIN orders}

OrderCount(sku) ==
  Cardinality({i \in DOMAIN orders : orders[i].sku_id = sku})

RoadmapSkus == {phase1_skus[k].sku_id : k \in DOMAIN phase1_skus}

NonIncreasing ==
  \A k \in DOMAIN phase1_skus :
    k > 1 => phase1_skus[k - 1].order_count >= phase1_skus[k].order_count

UniqueSkuIds ==
  \A i, j \in DOMAIN sku_master :
    sku_master[i].sku_id = sku_master[j].sku_id => i = j

\* C5 as stated: the roadmap has at most 50 rows and its order counts are
\* non-increasing, for any orders table and SKU master.
C5_AtMost50RowsSorted ==
  RoadmapDone => Len(phase1_skus) <= 50 /\ NonIncreasing

\* C5 as amended: the roadmap holds at most 50 distinct SKUs, the most
\* ordered ones, each with its order count, in non-increasing order of
\* count; it has one row per SKU row of a listed sku_id (one row when the
\* SKU master has none), so at most 50 rows when sku_id is unique in the
\* SKU master.
C5_AtMost50SkusSorted ==
  RoadmapDone =>
    /\ NonIncreasing
    /\ Cardinality(RoadmapSkus) <= 50
    /\ Cardinality(RoadmapSkus) = Min(50, Cardinality(OrderedSkus))
    /\ RoadmapSkus \subseteq OrderedSkus
    /\ \A k \in DOMAIN phase1_skus :
         phase1_skus[k].order_count = OrderCount(phase1_skus[k].sku_id)
    /\ \A x \in RoadmapSkus : \A y \in OrderedSkus \ RoadmapSkus :
         OrderCount(x) >= OrderCount(y)
    /\ \A x \in RoadmapSkus :
         Cardinality({k \in DOMAIN phase1_skus : phase1_skus[k].sku_id = x})
           = Max(1, Cardinality({i \in DOMAIN sku_master :
                                   sku_master[i].sku_id = x}))
    /\ UniqueSkuIds => Len(phase1_skus) <= 50

C5_Witness ==
  /\ RoadmapDone
  /\ Cardinality(OrderedSkus) > 50
  /\ Cardinality(RoadmapSkus) = 50
  /\ UniqueSkuIds
  /\ sku_master # <<>>
  /\ Len(phase1_skus) = 50
  /\ phase1_skus[1].order_count > phase1_skus[50].order_count

\* ------------------------------------------------------ decimal drift
\* The decimal-drift section on its own, with the two domain limits drawn
\* from a range instead of fixed at 25 kg and 0.01 kg.

\* weights from 5 g to 30 kg, in 5 g units
DriftWeights == {1, 2, 200, 600, 5000, 6000}

DriftUppers == {200, 600, UpperDomainLimit, 6000}

DriftLowers == {1, LowerDomainLimit, 200, 600}

InitDrift ==
  /\ pc = "drift"
  /\ error = "none"
  /\ \E ws \in SeqUpTo(DriftWeights, MaxDriftRows) :
       sku_master = [i \in DOMAIN ws |-> SkuRow(i, ws[i], A1, "ambient")]
  /\ warehouse = DefaultWarehouse
  /\ orders = DefaultOrders
  /\ picker_movement = DefaultPickers
  /\ upper_domain_limit \in DriftUppers
  /\ lower_domain_limit \in DriftLowers
  /\ BlankTraffic
  /\ decimal_drift = {}
  /\ BlankShortcut
  /\ suspicious_picker_count = 0
  /\ BlankGhost
  /\ BlankSpoilage
  /\ violation_count = 0
  /\ BlankSummary

NextDrift == DecimalDrift

SpecDrift == InitDrift /\ [][NextDrift]_vars

DriftDone == pc # "drift"

\* the limits that are at least as wide as the ones the run used
WiderLimits ==
  {l \in DriftUppers \X DriftLowers :
     l[1] >= upper_domain_limit /\ l[2] <= lower_domain_limit}

\* C4: for a fixed SKU master, the rows flagged under a raised upper limit
\* or a lowered lower limit are among the rows flagged under the limits
\* the run used.
C4_DriftBandMonotonic ==
  DriftDone =>
    \A l \in WiderLimits :
      DecimalDriftOf(sku_master, l[1], l[2]) \subseteq decimal_drift

C4_Witness ==
  /\ DriftDone
  /\ decimal_drift # {}
  /\ \E l \in WiderLimits :
       /\ DecimalDriftOf(sku_master, l[1], l[2]) # decimal_drift
       /\ DecimalDriftOf(sku_master, l[1], l[2]) # {}

====
